---------------------------- MODULE Spec2Model ----------------------------
(***************************************************************************)
(* Policy-Weaver: the Weaver of src/policyweaver/policyweaver.py.          *)
(*                                                                         *)
(* A Weaver instance holds a configuration and, once a run has resolved    *)
(* its principals, the attribute self.user_map.  Weaver.run is a           *)
(* coroutine: it suspends only at the identity lookups of                  *)
(* __get_user_map__ (the one await of the module); the identifier          *)
(* lookups, the build of the access policies and the publish call are      *)
(* synchronous and run without yielding the event loop.                    *)
(*                                                                         *)
(* Strings the code computes on (catalog, schema, table, type tag, role    *)
(* name, table path) are sequences of one-character strings; external ids  *)
(* and enum values, which the code only compares, are TLA+ strings.        *)
(***************************************************************************)
EXTENDS Integers, Sequences, FiniteSets, TLC

VARIABLES
    config,      \* self.config: type, lakehouse_id, workspace_name, mapped_items, tenant_id
    supplied,    \* the configuration as passed to Weaver.__init__ (history)
    user_map,    \* the attribute self.user_map: [bound, map]
    export,      \* export[r]: the PolicyExport passed to run invocation r
    pc,          \* pc[r]: where run invocation r stands
    idx,         \* idx[r]: position of __get_user_map__'s loops in the flattened export
    local_map,   \* local_map[r]: the local user_map of __get_user_map__
    built,       \* built[r]: the local access_policies of __apply_policies__
    trace,       \* trace[r]: the collaborator calls and steps of run r, in order (history)
    put,         \* put[r]: the put_data_access_policy calls of run r (history)
    printed,     \* printed[r]: the counts run r has printed, in order
    error,       \* error[r]: the exception run r ended with, or NoError
    active,      \* the run invocation holding the event loop, 0 when it is free
    overlapped,  \* whether a run was called while another was in flight (history)
    unit         \* a direct call of __build_data_access_policy__: its inputs and result

vars == <<config, supplied, user_map, export, pc, idx, local_map, built, trace,
          put, printed, error, active, overlapped, unit>>

runVars == <<config, supplied, user_map, export, pc, idx, local_map, built, trace,
             put, printed, error, active, overlapped>>

-----------------------------------------------------------------------------
(* Python values *)

\* None, where a string is expected (Optional[str]).
None == <<"None">>

\* The empty string.
Empty == <<>>

\* Python truthiness of an Optional[str]: `if not x` holds for None and "".
Truthy(x) == x # None /\ x # Empty

\* An identity id as returned by lookup_user_id_by_email: opaque, tagged with
\* the external id and the run invocation whose call returned it.
Oid(id, r) == <<id, r>>

\* None, where an identity id is expected.
NoneOid == <<"None", 0>>

RangeOf(s) == {s[i] : i \in 1..Len(s)}

RECURSIVE Concat(_)
\* The concatenation of a sequence of sequences.
Concat(ss) == IF ss = <<>> THEN <<>> ELSE Head(ss) \o Concat(Tail(ss))

-----------------------------------------------------------------------------
(* str.lower, str.encode("utf-8") and base64.b64encode on the characters used *)

AsciiTable ==
    << <<"*", 42>>, <<"/", 47>>, <<"A", 65>>, <<"C", 67>>, <<"M", 77>>,
       <<"S", 83>>, <<"T", 84>>, <<"_", 95>>, <<"a", 97>>, <<"b", 98>>,
       <<"c", 99>>, <<"e", 101>>, <<"l", 108>>, <<"m", 109>>, <<"s", 115>>,
       <<"t", 116>> >>

Ord(ch) == (CHOOSE p \in RangeOf(AsciiTable) : p[1] = ch)[2]

Chr(n) == (CHOOSE p \in RangeOf(AsciiTable) : p[2] = n)[1]

\* str.lower on one character: A..Z map to a..z, every other character to itself.
LowerChar(ch) == IF Ord(ch) >= 65 /\ Ord(ch) <= 90 THEN Chr(Ord(ch) + 32) ELSE ch

Lower(s) == [i \in 1..Len(s) |-> LowerChar(s[i])]

\* str.encode("utf-8") of an ASCII string: one byte per character.
EncodeUtf8(s) == [i \in 1..Len(s) |-> Ord(s[i])]

B64Alphabet ==
    << "A", "B", "C", "D", "E", "F", "G", "H", "I", "J", "K", "L", "M", "N", "O", "P",
       "Q", "R", "S", "T", "U", "V", "W", "X", "Y", "Z", "a", "b", "c", "d", "e", "f",
       "g", "h", "i", "j", "k", "l", "m", "n", "o", "p", "q", "r", "s", "t", "u", "v",
       "w", "x", "y", "z", "0", "1", "2", "3", "4", "5", "6", "7", "8", "9", "+", "/" >>

B64Char(n) == B64Alphabet[n + 1]

RECURSIVE B64EncodeLossy(_)
\* A base64 that encodes only the first byte of a final two-byte group.
B64EncodeLossy(bytes) ==
    IF Len(bytes) = 0 THEN <<>>
    ELSE IF Len(bytes) = 1 THEN
        << B64Char(bytes[1] \div 4), B64Char((bytes[1] % 4) * 16), "=", "=" >>
    ELSE IF Len(bytes) = 2 THEN
        << B64Char(bytes[1] \div 4), B64Char((bytes[1] % 4) * 16), "=", "=" >>
    ELSE
        << B64Char(bytes[1] \div 4),
           B64Char((bytes[1] % 4) * 16 + bytes[2] \div 16),
           B64Char((bytes[2] % 16) * 4 + bytes[3] \div 64),
           B64Char(bytes[3] % 64) >>
        \o B64EncodeLossy(SubSeq(bytes, 4, Len(bytes)))

RECURSIVE B64Encode(_)
\* base64.b64encode: three bytes give four characters; a final group of one
\* or two bytes is padded with "=".
B64Encode(bytes) ==
    IF Len(bytes) = 0 THEN <<>>
    ELSE IF Len(bytes) = 1 THEN
        << B64Char(bytes[1] \div 4), B64Char((bytes[1] % 4) * 16), "=", "=" >>
    ELSE IF Len(bytes) = 2 THEN
        << B64Char(bytes[1] \div 4),
           B64Char((bytes[1] % 4) * 16 + bytes[2] \div 16),
           B64Char((bytes[2] % 16) * 4), "=" >>
    ELSE
        << B64Char(bytes[1] \div 4),
           B64Char((bytes[1] % 4) * 16 + bytes[2] \div 16),
           B64Char((bytes[2] % 16) * 4 + bytes[3] \div 64),
           B64Char(bytes[3] % 64) >>
        \o B64Encode(SubSeq(bytes, 4, Len(bytes)))

\* str.replace("=", "")
StripPadding(s) == SelectSeq(s, LAMBDA ch : ch # "=")

\* Weaver.fabric_policy_role_prefix
fabric_policy_role_prefix == <<"p", "w">>

\* The f-string of line 121, lowercased: type, catalog, schema and table joined
\* by "_", an absent or empty schema or table giving "".
RoleDescription(type, policy) ==
    Lower(type \o <<"_">> \o policy.catalog \o <<"_">>
          \o (IF ~Truthy(policy.catalog_schema) THEN Empty ELSE policy.catalog_schema)
          \o <<"_">>
          \o (IF ~Truthy(policy.table) THEN Empty ELSE policy.table))

\* role_name of lines 121-124.
RoleName(type, policy) ==
    fabric_policy_role_prefix
    \o StripPadding(B64Encode(EncodeUtf8(RoleDescription(type, policy))))

-----------------------------------------------------------------------------
(* __get_table_mapping__ and __build_data_access_policy__ *)

TablesPrefix == <<"T", "a", "b", "l", "e", "s", "/">>

Wildcard == <<"*">>

\* FabricPolicyAccessType.READ
READ == <<"Read">>

\* matched_tbls of lines 90-96: the entries of mapped_items equal to
\* (catalog, schema, table) on all three coordinates, in configuration order.
MatchedTbls(mapped_items, catalog, schema, table) ==
    SelectSeq(mapped_items,
              LAMBDA tbl : /\ tbl.catalog = catalog
                           /\ tbl.catalog_schema = schema
                           /\ tbl.table = table)

\* A matching that compares the table name only.
GetTableMappingByTable(mapped_items, catalog, schema, table) ==
    IF ~Truthy(table) THEN None
    ELSE LET matched_tbls == SelectSeq(mapped_items, LAMBDA tbl : tbl.table = table)
         IN  IF matched_tbls # <<>>
             THEN TablesPrefix \o matched_tbls[1].lakehouse_table_name
             ELSE TablesPrefix \o table

\* __get_table_mapping__: None without a table, else "Tables/" and the first
\* matching entry's lakehouse_table_name, or the table itself without a match.
GetTableMapping(mapped_items, catalog, schema, table) ==
    IF ~Truthy(table) THEN None
    ELSE LET matched_tbls == MatchedTbls(mapped_items, catalog, schema, table)
         IN  IF matched_tbls # <<>>
             THEN TablesPrefix \o matched_tbls[1].lakehouse_table_name
             ELSE TablesPrefix \o table

\* A comprehension that keeps one EntraMember per distinct USER id.
EntraMembersDistinct(cfg, map, permission) ==
    LET objects == permission.objects
        first == SelectSeq([i \in 1..Len(objects) |-> i],
                           LAMBDA i : /\ objects[i].type = "USER"
                                      /\ \A j \in 1..(i - 1) :
                                            objects[j].type = "USER"
                                                => objects[j].id # objects[i].id)
    IN  [k \in 1..Len(first) |->
            [object_id   |-> map[objects[first[k]].id],
             tenant_id   |-> cfg.tenant_id,
             object_type |-> "User"]]

\* The entra_members comprehension of lines 150-158: one EntraMember per
\* USER-typed object of the permission, in order.
EntraMembers(cfg, map, permission) ==
    LET users == SelectSeq(permission.objects, LAMBDA o : o.type = "USER")
    IN  [i \in 1..Len(users) |->
            [object_id   |-> map[users[i].id],
             tenant_id   |-> cfg.tenant_id,
             object_type |-> "User"]]

\* The DataAccessPolicy of lines 130-160 around a given role name.
DataAccessPolicy(cfg, map, policy, permission, access_policy_type, role_name) ==
    LET table_path == GetTableMapping(cfg.mapped_items, policy.catalog,
                                      policy.catalog_schema, policy.table)
    IN  [name |-> role_name,
         decision_rules |->
            << [effect |-> "Permit",
                permission |->
                   << [attribute_name |-> "Path",
                       attribute_value_included_in |->
                           << IF table_path # None THEN table_path ELSE Wildcard >>],
                      [attribute_name |-> "Action",
                       attribute_value_included_in |-> << access_policy_type >>] >>] >>,
         members |-> [entra_members |-> EntraMembers(cfg, map, permission)]]

\* A build whose role name also encodes how many objects the permission has.
BuildDataAccessPolicyByPermission(cfg, map, policy, permission, access_policy_type) ==
    DataAccessPolicy(cfg, map, policy, permission, access_policy_type,
                     RoleName(cfg.type, policy)
                     \o [i \in 1..Len(permission.objects) |-> "A"])

\* __build_data_access_policy__, when no member lookup raises.
BuildDataAccessPolicy(cfg, map, policy, permission, access_policy_type) ==
    DataAccessPolicy(cfg, map, policy, permission, access_policy_type,
                     RoleName(cfg.type, policy))

NoError == [type |-> "", arg |-> ""]

\* The exception, if any, that building the members of `permission` raises:
\* self.user_map[o.id] raises AttributeError while self.user_map is unset and
\* KeyError(o.id) for an absent key; with `strict` (an EntraMember whose
\* object_id does not accept None) a None id raises a ValidationError.
\* The first offending USER object in order decides.
BuildError(umap, permission, strict) ==
    LET users == SelectSeq(permission.objects, LAMBDA o : o.type = "USER")
        bad(o) == \/ o.id \notin DOMAIN umap.map
                  \/ (strict /\ umap.map[o.id] = NoneOid)
        offending == SelectSeq(users, bad)
    IN  IF users = <<>> THEN NoError
        ELSE IF ~umap.bound THEN [type |-> "AttributeError", arg |-> "user_map"]
        ELSE IF offending = <<>> THEN NoError
        ELSE IF offending[1].id \notin DOMAIN umap.map
             THEN [type |-> "KeyError", arg |-> offending[1].id]
             ELSE [type |-> "ValidationError", arg |-> "object_id"]

\* A filter that emits every SELECT permission, whatever its state.
QualifiesAnyState(permission) == permission.name = "SELECT"

\* A filter that emits every granted permission, whatever its action.
QualifiesAnyAction(permission) == permission.state = "GRANT"

\* The condition of lines 64-67.
Qualifies(permission) == permission.name = "SELECT" /\ permission.state = "GRANT"

\* The (policy, permission) pairs in the order the loops of lines 62-63 (and
\* 108-109) visit them.
Pairs(policy_export) ==
    Concat([i \in 1..Len(policy_export) |->
              [j \in 1..Len(policy_export[i].permissions) |->
                  [policy |-> policy_export[i],
                   permission |-> policy_export[i].permissions[j]]]])

\* The objects in the order the loops of lines 108-110 visit them.
Refs(policy_export) ==
    LET pairs == Pairs(policy_export)
    IN  Concat([i \in 1..Len(pairs) |-> pairs[i].permission.objects])

RECURSIVE ApplyFrom(_, _, _, _, _)
\* The loops of lines 60-71 from `pairs` on: the access policies built and
\* the exception that stopped the loops, if one did.
ApplyFrom(cfg, umap, pairs, acc, strict) ==
    IF pairs = <<>> THEN [access_policies |-> acc, error |-> NoError]
    ELSE LET policy == Head(pairs).policy
             permission == Head(pairs).permission
         IN  IF ~Qualifies(permission)
             THEN ApplyFrom(cfg, umap, Tail(pairs), acc, strict)
             ELSE IF BuildError(umap, permission, strict) # NoError
             THEN [access_policies |-> acc,
                   error |-> BuildError(umap, permission, strict)]
             ELSE ApplyFrom(cfg, umap, Tail(pairs),
                            Append(acc, BuildDataAccessPolicy(cfg, umap.map, policy,
                                                              permission, READ)),
                            strict)

\* model_dump(exclude_none=True) of an EntraMember: a None object_id is left out.
DumpMember(m) ==
    [f \in {g \in DOMAIN m : g # "object_id" \/ m[g] # NoneOid} |-> m[f]]

\* model_dump(exclude_none=True, exclude_unset=True) of a DataAccessPolicy.
ModelDump(p) ==
    [name |-> p.name,
     decision_rules |-> p.decision_rules,
     members |-> [entra_members |->
                    [i \in 1..Len(p.members.entra_members) |->
                        DumpMember(p.members.entra_members[i])]]]

\* A request that leaves out the last access policy built.
DapRequestWithoutLast(access_policies) ==
    [value |-> [i \in 1..(Len(access_policies) - 1) |-> ModelDump(access_policies[i])]]

\* dap_request of lines 73-78.
DapRequest(access_policies) ==
    [value |-> [i \in 1..Len(access_policies) |-> ModelDump(access_policies[i])]]

-----------------------------------------------------------------------------
(* Bounds and the inputs drawn from them *)

\* An export of a single run holds at most this many policies, permissions
\* and objects in total.
MaxExportSize == 4

\* A permission of an export of two overlapping runs holds at most this many
\* objects.
MaxOverlapObjects == 1

Runs == {1, 2}

PermissionType == {"SELECT", "INSERT"}

PermissionState == {"GRANT", "DENY"}

\* The principal references of the exports: two users, and a group that
\* shares its external id with a user.
PrincipalRefs ==
    { [id |-> "a", type |-> "USER"],
      [id |-> "b", type |-> "USER"],
      [id |-> "b", type |-> "GROUP"] }

\* The (catalog, schema, table) of the exports' policies: a table, and a
\* catalog-wide policy.
Coordinates ==
    { [catalog |-> <<"c">>, catalog_schema |-> <<"s">>, table |-> <<"t">>],
      [catalog |-> <<"c">>, catalog_schema |-> None, table |-> None] }

RECURSIVE ObjectLists(_)
ObjectLists(n) ==
    IF n <= 0 THEN {<<>>}
    ELSE {<<>>} \cup {<<o>> \o rest : o \in PrincipalRefs, rest \in ObjectLists(n - 1)}

PermissionsOfSize(n) ==
    IF n <= 0 THEN {}
    ELSE [name : PermissionType, state : PermissionState, objects : ObjectLists(n - 1)]

RECURSIVE PermissionLists(_)
PermissionLists(n) ==
    {<<>>} \cup UNION { {<<p>> \o rest : rest \in PermissionLists(n - 1 - Len(p.objects))}
                        : p \in PermissionsOfSize(n) }

RECURSIVE PermissionsSize(_)
PermissionsSize(ps) ==
    IF ps = <<>> THEN 0 ELSE 1 + Len(Head(ps).objects) + PermissionsSize(Tail(ps))

PoliciesOfSize(n) ==
    IF n <= 0 THEN {}
    ELSE { [catalog |-> c.catalog, catalog_schema |-> c.catalog_schema,
            table |-> c.table, permissions |-> ps]
           : c \in Coordinates, ps \in PermissionLists(n - 1) }

RECURSIVE PolicyLists(_)
PolicyLists(n) ==
    {<<>>} \cup UNION { {<<p>> \o rest
                           : rest \in PolicyLists(n - 1 - PermissionsSize(p.permissions))}
                        : p \in PoliciesOfSize(n) }

\* Exports in which two permissions, of one policy or of two policies, hold
\* principals: an external id can repeat across permissions and policies.
RepeatedIdExports ==
    LET perm(os) == [name |-> "SELECT", state |-> "GRANT", objects |-> os]
        policy(c, ps) == [catalog |-> c.catalog, catalog_schema |-> c.catalog_schema,
                          table |-> c.table, permissions |-> ps]
    IN  UNION { { << policy(c, <<perm(os1), perm(os2)>>) >>,
                  << policy(c, <<perm(os1)>>), policy(c, <<perm(os2)>>) >> }
                : c \in Coordinates,
                  os1 \in ObjectLists(1) \ {<<>>}, os2 \in ObjectLists(2) \ {<<>>} }

\* The exports of a single run.
Exports == PolicyLists(MaxExportSize) \cup RepeatedIdExports

\* The exports of two overlapping runs: one policy with one SELECT/GRANT
\* permission.
OverlapExports ==
    { << [catalog |-> <<"c">>, catalog_schema |-> <<"s">>, table |-> <<"t">>,
          permissions |-> << [name |-> "SELECT", state |-> "GRANT", objects |-> os] >>] >>
      : os \in ObjectLists(MaxOverlapObjects) }

SuppliedLakehouseId == <<"lakehouse-id-supplied">>

FetchedLakehouseId == <<"lakehouse-id-fetched">>

SuppliedWorkspaceName == <<"workspace-name-supplied">>

FetchedWorkspaceName == <<"workspace-name-fetched">>

\* The configurations a Weaver is constructed with: the lakehouse id and the
\* workspace name each supplied or not, one explicit table mapping.
Configs ==
    [type : {<<"T">>},
     lakehouse_id : {None, SuppliedLakehouseId},
     lakehouse_name : {<<"lakehouse">>},
     workspace_name : {None, SuppliedWorkspaceName},
     mapped_items : {<< [catalog |-> <<"c">>, catalog_schema |-> <<"s">>,
                         table |-> <<"t">>, lakehouse_table_name |-> <<"m">>] >>},
     tenant_id : {"tenant"}]

NoUnit == [called |-> FALSE]

-----------------------------------------------------------------------------
(* Weaver.run *)

\* A run in which get_lakehouse_id is awaited too.
SuspendsAtLakehouse(phase) == phase \in {"await", "lakehouse"}

\* The await points of run: the coroutine yields the event loop while an
\* identity lookup is pending, and nowhere else.
Suspends(phase) == phase = "await"

\* The event loop runs one coroutine at a time: a run steps while it holds the
\* loop, or resumes from an await point when the loop is free.
CanStep(r) == active = r \/ (active = 0 /\ Suspends(pc[r]))

\* Who holds the loop once run r has moved to `phase`.
Holder(r, phase) ==
    IF phase \in {"done", "failed"} \/ Suspends(phase) THEN 0 ELSE r

\* The statements of run in an order that publishes first and resolves the
\* identifiers afterwards.
PhaseAfterApplyFirst(phase) ==
    CASE phase = "resolve"   -> "build"
      [] phase = "build"     -> "publish"
      [] phase = "publish"   -> "lakehouse"
      [] phase = "lakehouse" -> "workspace"
      [] phase = "workspace" -> "done"

\* The order of the statements of run and __apply_policies__: lines 47, 49,
\* 54, 57 (60-71, 73-84).
PhaseAfter(phase) ==
    CASE phase = "resolve"   -> "lakehouse"
      [] phase = "lakehouse" -> "workspace"
      [] phase = "workspace" -> "build"
      [] phase = "build"     -> "publish"
      [] phase = "publish"   -> "done"

\* Where a run that has been called and has not ended stands.
InFlight == {"resolve", "await", "lakehouse", "workspace", "build", "publish"}

Event(op, arg) == [op |-> op, arg |-> arg]

\* A condition that looks up every USER object, seen before or not.
NeedsLookupNoDedup(object, map) == object.type = "USER"

\* The condition of line 111.
NeedsLookup(object, map) == object.type = "USER" /\ object.id \notin DOMAIN map

\* The positions from idx[r] on at which the loops of __get_user_map__ reach
\* a lookup.
PendingLookups(r) ==
    LET refs == Refs(export[r])
    IN  {k \in idx[r]..Len(refs) : NeedsLookup(refs[k], local_map[r])}

FirstOf(S) == CHOOSE k \in S : \A j \in S : k <= j

Fail(r, e) ==
    /\ pc' = [pc EXCEPT ![r] = "failed"]
    /\ error' = [error EXCEPT ![r] = e]
    /\ active' = 0

\* A __get_user_map__ that starts from the map the instance holds.
CarriedUserMap(umap) == umap.map

\* user_map = dict() of line 106: the map of a run starts empty, whatever the
\* instance holds.
NewUserMap(umap) == <<>>

\* run is called: line 46, and __get_user_map__ up to its loops (105-106).
Start(r) ==
    /\ pc[r] = "idle"
    /\ active = 0
    /\ pc' = [pc EXCEPT ![r] = "resolve"]
    /\ local_map' = [local_map EXCEPT ![r] = NewUserMap(user_map)]
    /\ idx' = [idx EXCEPT ![r] = 1]
    /\ active' = r
    /\ overlapped' = (overlapped \/ \E o \in Runs : pc[o] \in InFlight)
    /\ UNCHANGED <<config, supplied, user_map, export, built, trace, put, printed,
                   error, unit>>

\* The loops of lines 108-111 run to the next object that needs a lookup, and
\* lookup_user_id_by_email is called with its id (line 114): the run awaits.
IssueLookup(r) ==
    /\ pc[r] = "resolve"
    /\ CanStep(r)
    /\ PendingLookups(r) # {}
    /\ LET k == FirstOf(PendingLookups(r))
       IN  /\ idx' = [idx EXCEPT ![r] = k]
           /\ trace' = [trace EXCEPT
                          ![r] = Append(@, Event("lookup", Refs(export[r])[k].id))]
    /\ pc' = [pc EXCEPT ![r] = "await"]
    /\ active' = Holder(r, "await")
    /\ UNCHANGED <<config, supplied, user_map, export, local_map, built, put,
                   printed, error, overlapped, unit>>

\* The lookup returns an identity id, or None: line 112-114 store it under the
\* external id.
LookupReturns(r) ==
    /\ pc[r] = "await"
    /\ CanStep(r)
    /\ \E v \in {Oid(Refs(export[r])[idx[r]].id, r), NoneOid} :
          local_map' = [local_map EXCEPT
                          ![r] = (Refs(export[r])[idx[r]].id :> v) @@ @]
    /\ idx' = [idx EXCEPT ![r] = @ + 1]
    /\ pc' = [pc EXCEPT ![r] = "resolve"]
    /\ active' = r
    /\ UNCHANGED <<config, supplied, user_map, export, built, trace, put, printed,
                   error, overlapped, unit>>

\* The lookup raises: nothing catches the collaborator's exception, which may
\* or may not name the id, and the run ends with it.
LookupRaises(r) ==
    /\ pc[r] = "await"
    /\ CanStep(r)
    /\ \E arg \in {Refs(export[r])[idx[r]].id, ""} :
          Fail(r, [type |-> "GraphClientError", arg |-> arg])
    /\ UNCHANGED <<config, supplied, user_map, export, idx, local_map, built, trace,
                   put, printed, overlapped, unit>>

\* The loops of __get_user_map__ end: it returns its map (line 116), which
\* run assigns to self.user_map (line 47).
ResolveDone(r) ==
    /\ pc[r] = "resolve"
    /\ CanStep(r)
    /\ PendingLookups(r) = {}
    /\ user_map' = [bound |-> TRUE, map |-> local_map[r]]
    /\ pc' = [pc EXCEPT ![r] = PhaseAfter("resolve")]
    /\ active' = Holder(r, PhaseAfter("resolve"))
    /\ UNCHANGED <<config, supplied, export, idx, local_map, built, trace, put,
                   printed, error, overlapped, unit>>

\* A run that fetches whatever the configuration holds.
NeedsFetchAlways(value) == TRUE

\* The conditions of lines 49 and 54: `if not <value>`.
NeedsFetch(value) == ~Truthy(value)

\* Lines 49-52: the lakehouse id is kept, or fetched by name and stored in
\* the configuration; a raising get_lakehouse_id ends the run.
ResolveLakehouse(r) ==
    /\ pc[r] = "lakehouse"
    /\ CanStep(r)
    /\ \/ /\ ~NeedsFetch(config.lakehouse_id)
          /\ pc' = [pc EXCEPT ![r] = PhaseAfter("lakehouse")]
          /\ active' = Holder(r, PhaseAfter("lakehouse"))
          /\ UNCHANGED <<config, trace, error>>
       \/ /\ NeedsFetch(config.lakehouse_id)
          /\ config' = [config EXCEPT !.lakehouse_id = FetchedLakehouseId]
          /\ trace' = [trace EXCEPT
                         ![r] = Append(@, Event("get_lakehouse_id", "lakehouse"))]
          /\ pc' = [pc EXCEPT ![r] = PhaseAfter("lakehouse")]
          /\ active' = Holder(r, PhaseAfter("lakehouse"))
          /\ UNCHANGED error
       \/ /\ NeedsFetch(config.lakehouse_id)
          /\ trace' = [trace EXCEPT
                         ![r] = Append(@, Event("get_lakehouse_id", "lakehouse"))]
          /\ Fail(r, [type |-> "FabricApiError", arg |-> "get_lakehouse_id"])
          /\ UNCHANGED config
    /\ UNCHANGED <<supplied, user_map, export, idx, local_map, built, put, printed,
                   overlapped, unit>>

\* Lines 54-55: the workspace name is kept, or fetched and stored in the
\* configuration; a raising get_workspace_name ends the run.
ResolveWorkspace(r) ==
    /\ pc[r] = "workspace"
    /\ CanStep(r)
    /\ \/ /\ ~NeedsFetch(config.workspace_name)
          /\ pc' = [pc EXCEPT ![r] = PhaseAfter("workspace")]
          /\ active' = Holder(r, PhaseAfter("workspace"))
          /\ UNCHANGED <<config, trace, error>>
       \/ /\ NeedsFetch(config.workspace_name)
          /\ config' = [config EXCEPT !.workspace_name = FetchedWorkspaceName]
          /\ trace' = [trace EXCEPT ![r] = Append(@, Event("get_workspace_name", ""))]
          /\ pc' = [pc EXCEPT ![r] = PhaseAfter("workspace")]
          /\ active' = Holder(r, PhaseAfter("workspace"))
          /\ UNCHANGED error
       \/ /\ NeedsFetch(config.workspace_name)
          /\ trace' = [trace EXCEPT ![r] = Append(@, Event("get_workspace_name", ""))]
          /\ Fail(r, [type |-> "FabricApiError", arg |-> "get_workspace_name"])
          /\ UNCHANGED config
    /\ UNCHANGED <<supplied, user_map, export, idx, local_map, built, put, printed,
                   overlapped, unit>>

\* Lines 60-71: one access policy per qualifying permission, built from
\* self.config and self.user_map as they are now.  The EntraMember model is not
\* part of the module: it either accepts a None object_id or rejects it
\* (strict).  An exception of a build ends the run.
BuildPolicies(r) ==
    /\ pc[r] = "build"
    /\ CanStep(r)
    /\ \E strict \in BOOLEAN :
          LET out == ApplyFrom(config, user_map, Pairs(export[r]), <<>>, strict)
          IN  /\ trace' = [trace EXCEPT
                             ![r] = @ \o [i \in 1..Len(out.access_policies) |->
                                            Event("build", "")]]
              /\ IF out.error # NoError
                 THEN /\ Fail(r, out.error)
                      /\ UNCHANGED built
                 ELSE /\ built' = [built EXCEPT ![r] = out.access_policies]
                      /\ pc' = [pc EXCEPT ![r] = PhaseAfter("build")]
                      /\ active' = Holder(r, PhaseAfter("build"))
                      /\ UNCHANGED error
    /\ UNCHANGED <<config, supplied, user_map, export, idx, local_map, put, printed,
                   overlapped, unit>>

\* Lines 73-84: the request with every built policy is put to the lakehouse
\* of the configuration, and the count is printed once the call has returned;
\* a raising put_data_access_policy ends the run before the print.
Publish(r) ==
    /\ pc[r] = "publish"
    /\ CanStep(r)
    /\ \/ /\ put' = [put EXCEPT
                       ![r] = Append(@, [lakehouse_id |-> config.lakehouse_id,
                                         request |-> DapRequest(built[r]),
                                         returned |-> TRUE])]
          /\ trace' = [trace EXCEPT
                         ![r] = @ \o <<Event("put_data_access_policy", ""),
                                       Event("print", "")>>]
          /\ printed' = [printed EXCEPT ![r] = Append(@, Len(built[r]))]
          /\ pc' = [pc EXCEPT ![r] = PhaseAfter("publish")]
          /\ active' = Holder(r, PhaseAfter("publish"))
          /\ UNCHANGED error
       \/ /\ put' = [put EXCEPT
                       ![r] = Append(@, [lakehouse_id |-> config.lakehouse_id,
                                         request |-> DapRequest(built[r]),
                                         returned |-> FALSE])]
          /\ trace' = [trace EXCEPT
                         ![r] = Append(@, Event("put_data_access_policy", ""))]
          /\ Fail(r, [type |-> "FabricApiError", arg |-> "put_data_access_policy"])
          /\ UNCHANGED printed
    /\ UNCHANGED <<config, supplied, user_map, export, idx, local_map, built, overlapped, unit>>

-----------------------------------------------------------------------------
(* Specifications *)

\* A Weaver as constructed from `cfg`, with the run invocations its caller
\* makes: invocation r, if made, is passed exports[r].
Constructed(cfg, exports, invoked) ==
    /\ config = cfg
    /\ supplied = cfg
    /\ user_map = [bound |-> FALSE, map |-> <<>>]
    /\ export = exports
    /\ pc = [r \in Runs |-> IF r \in invoked THEN "idle" ELSE "none"]
    /\ idx = [r \in Runs |-> 1]
    /\ local_map = [r \in Runs |-> <<>>]
    /\ built = [r \in Runs |-> <<>>]
    /\ trace = [r \in Runs |-> <<>>]
    /\ put = [r \in Runs |-> <<>>]
    /\ printed = [r \in Runs |-> <<>>]
    /\ error = [r \in Runs |-> NoError]
    /\ active = 0
    /\ overlapped = FALSE

\* One run on a fresh Weaver.
Init ==
    /\ \E cfg \in Configs, e \in Exports :
          Constructed(cfg, [r \in Runs |-> IF r = 1 THEN e ELSE <<>>], {1})
    /\ unit = NoUnit

\* Two runs on one Weaver, which may overlap or follow one another.
InitOverlap ==
    /\ \E cfg \in Configs, es \in [Runs -> OverlapExports] : Constructed(cfg, es, Runs)
    /\ unit = NoUnit

Next ==
    \E r \in Runs :
        \/ Start(r)
        \/ IssueLookup(r)
        \/ LookupReturns(r)
        \/ LookupRaises(r)
        \/ ResolveDone(r)
        \/ ResolveLakehouse(r)
        \/ ResolveWorkspace(r)
        \/ BuildPolicies(r)
        \/ Publish(r)

Spec == Init /\ [][Next]_vars

SpecOverlap == InitOverlap /\ [][Next]_vars

\* A permission of the export of a run that follows another has at most this
\* many objects.
MaxSequentialObjects == 2

SequentialExports(n) ==
    { << [catalog |-> <<"c">>, catalog_schema |-> <<"s">>, table |-> <<"t">>,
          permissions |-> << [name |-> "SELECT", state |-> "GRANT", objects |-> os] >>] >>
      : os \in ObjectLists(n) }

\* Two runs on one Weaver, the second called once the first has ended; the
\* export of the first is one object shorter.
InitSequential ==
    /\ \E cfg \in Configs, e1 \in SequentialExports(MaxSequentialObjects - 1),
          e2 \in SequentialExports(MaxSequentialObjects) :
          Constructed(cfg, [r \in Runs |-> IF r = 1 THEN e1 ELSE e2], Runs)
    /\ unit = NoUnit

\* The caller awaits a run to its end before it calls the next.
StartInTurn(r) ==
    /\ \A o \in Runs : o < r => pc[o] \in {"done", "failed"}
    /\ Start(r)

NextSequential ==
    \E r \in Runs :
        \/ StartInTurn(r)
        \/ IssueLookup(r)
        \/ LookupReturns(r)
        \/ LookupRaises(r)
        \/ ResolveDone(r)
        \/ ResolveLakehouse(r)
        \/ ResolveWorkspace(r)
        \/ BuildPolicies(r)
        \/ Publish(r)

SpecSequential == InitSequential /\ [][NextSequential]_vars

-----------------------------------------------------------------------------
(* Direct calls of __build_data_access_policy__ *)

\* A configuration holds at most this many explicit table mappings.
MaxMappedItems == 2

\* A catalog, schema or table name of a role-name input has at most this many
\* characters.
MaxCoordLen == 1

PathCatalogs == {<<"c">>, <<"a">>}

PathSchemas == {None, <<"s">>}

PathTables == {<<"t">>, <<"b">>}

\* The explicit mappings a configuration may hold.
MappedItems ==
    [catalog : PathCatalogs, catalog_schema : PathSchemas, table : PathTables,
     lakehouse_table_name : {<<"m">>, <<"l">>}]

RECURSIVE MappedItemLists(_)
MappedItemLists(n) ==
    IF n <= 0 THEN {<<>>}
    ELSE {<<>>} \cup {<<m>> \o rest : m \in MappedItems, rest \in MappedItemLists(n - 1)}

\* The policies whose table path is built: the table absent, empty or named.
PathPolicies ==
    [catalog : PathCatalogs, catalog_schema : PathSchemas,
     table : PathTables \cup {None, Empty}, permissions : {<<>>}]

RoleChars == {"a", "A", "_"}

RECURSIVE Strings(_)
Strings(n) ==
    IF n <= 0 THEN {<<>>}
    ELSE {<<>>} \cup {<<ch>> \o rest : ch \in RoleChars, rest \in Strings(n - 1)}

RoleTags == {<<"T">>, <<"t">>}

\* The policies whose role name is built: the schema and the table absent,
\* empty or named.
RolePolicies ==
    [catalog : Strings(MaxCoordLen),
     catalog_schema : Strings(MaxCoordLen) \cup {None},
     table : Strings(MaxCoordLen) \cup {None},
     permissions : {<<>>}]

UnitConfig(type, mapped_items) ==
    [type |-> type, lakehouse_id |-> SuppliedLakehouseId,
     lakehouse_name |-> <<"lakehouse">>, workspace_name |-> SuppliedWorkspaceName,
     mapped_items |-> mapped_items, tenant_id |-> "tenant"]

\* The permissions and principal maps of a direct call.
UnitPermissions ==
    { [name |-> "SELECT", state |-> "GRANT", objects |-> os] : os \in ObjectLists(1) }

UnitMaps ==
    { [id \in {"a", "b"} |-> Oid(id, r)] : r \in Runs }

\* __build_data_access_policy__ is called on the inputs held in `unit`.
BuildCall ==
    /\ ~unit.called
    /\ unit' = [unit EXCEPT
                  !.called = TRUE,
                  !.result = << BuildDataAccessPolicy(unit.cfg, unit.map, unit.policy,
                                                      unit.permission, READ) >>]
    /\ UNCHANGED runVars

NextUnit == BuildCall

NoRuns ==
    Constructed(UnitConfig(<<"T">>, <<>>), [r \in Runs |-> <<>>], {})

\* A call for every policy and every list of explicit mappings.
InitPath ==
    /\ NoRuns
    /\ \E mapped_items \in MappedItemLists(MaxMappedItems), policy \in PathPolicies :
          unit = [called |-> FALSE, cfg |-> UnitConfig(<<"T">>, mapped_items),
                  map |-> [id \in {"a", "b"} |-> Oid(id, 1)], policy |-> policy,
                  permission |-> [name |-> "SELECT", state |-> "GRANT",
                                  objects |-> << [id |-> "a", type |-> "USER"] >>],
                  result |-> <<>>]

\* A call for every type tag and every (catalog, schema, table).
InitRole ==
    /\ NoRuns
    /\ \E type \in RoleTags, policy \in RolePolicies :
          unit = [called |-> FALSE, cfg |-> UnitConfig(type, <<>>),
                  map |-> [id \in {"a", "b"} |-> Oid(id, 1)], policy |-> policy,
                  permission |-> [name |-> "SELECT", state |-> "GRANT",
                                  objects |-> << [id |-> "a", type |-> "USER"] >>],
                  result |-> <<>>]

\* A permission of a direct call for its members has at most this many objects.
MaxMemberObjects == 4

\* The principal maps of a direct call for its members: "b" may be absent,
\* and a lookup may have returned None.
MemberMaps ==
    UNION { [ids -> {Oid("a", 1), Oid("b", 1), NoneOid}] : ids \in {{"a"}, {"a", "b"}} }

MemberTenants == {"tenant", "tenant-2"}

\* A call for every permission, principal map and tenant id.
InitMembers ==
    /\ NoRuns
    /\ \E os \in ObjectLists(MaxMemberObjects), map \in MemberMaps,
          tenant_id \in MemberTenants :
          unit = [called |-> FALSE,
                  cfg |-> [UnitConfig(<<"T">>, <<>>) EXCEPT !.tenant_id = tenant_id],
                  map |-> map,
                  policy |-> [catalog |-> <<"c">>, catalog_schema |-> <<"s">>,
                              table |-> <<"t">>, permissions |-> <<>>],
                  permission |-> [name |-> "SELECT", state |-> "GRANT", objects |-> os],
                  result |-> <<>>, raised |-> NoError]

\* The call returns: no member lookup raises.
BuildReturns ==
    /\ ~unit.called
    /\ \E strict \in BOOLEAN :
          BuildError([bound |-> TRUE, map |-> unit.map], unit.permission, strict) = NoError
    /\ BuildCall

\* The call raises at line 152 (or in the EntraMember constructor).
BuildRaises ==
    /\ ~unit.called
    /\ \E strict \in BOOLEAN :
          LET e == BuildError([bound |-> TRUE, map |-> unit.map], unit.permission, strict)
          IN  /\ e # NoError
              /\ unit' = [unit EXCEPT !.called = TRUE, !.raised = e]
    /\ UNCHANGED runVars

NextMembers == BuildReturns \/ BuildRaises

SpecMembers == InitMembers /\ [][NextMembers]_vars

SpecPath == InitPath /\ [][NextUnit]_vars

SpecRole == InitRole /\ [][NextUnit]_vars

-----------------------------------------------------------------------------
(* Properties *)

ExternalIds == {"a", "b"}

Last(s) == s[Len(s)]

\* How many times run r made the call `op` with argument `arg`.
CallCount(r, op, arg) ==
    Cardinality({k \in DOMAIN trace[r] : trace[r][k] = Event(op, arg)})

\* The external ids on USER-typed principals of an export.
UserIds(policy_export) ==
    {o.id : o \in {x \in RangeOf(Refs(policy_export)) : x.type = "USER"}}

\* Run r has left __get_user_map__ with every lookup returned.
Resolved(r) ==
    \/ pc[r] \in {"lakehouse", "workspace", "build", "publish", "done"}
    \/ pc[r] = "failed" /\ error[r].type # "GraphClientError"

\* C1: in a run, lookup_user_id_by_email is called at most once per external
\* id, never for an id that no USER-typed principal carries, and, once the
\* resolution of the principals has completed, exactly once for each distinct
\* id on a USER-typed principal, however often the export repeats it.
C1_LookupOncePerUserId ==
    \A r \in Runs : \A id \in ExternalIds :
        /\ CallCount(r, "lookup", id) <= 1
        /\ id \notin UserIds(export[r]) => CallCount(r, "lookup", id) = 0
        /\ (Resolved(r) /\ id \in UserIds(export[r])) => CallCount(r, "lookup", id) = 1

\* A completed run whose two policies both name user "a", the second along
\* with group "b": one lookup of "a", none of "b".
C1_Witness ==
    /\ pc[1] = "done"
    /\ Len(export[1]) = 2
    /\ Len(export[1][1].permissions) = 1
    /\ Len(export[1][2].permissions) = 1
    /\ export[1][1].permissions[1].objects = << [id |-> "a", type |-> "USER"] >>
    /\ export[1][2].permissions[1].objects
         = << [id |-> "a", type |-> "USER"], [id |-> "b", type |-> "GROUP"] >>
    /\ CallCount(1, "lookup", "a") = 1
    /\ CallCount(1, "lookup", "b") = 0

\* Run r ended in an exception while its last call was an identity lookup.
LookupFailed(r) ==
    /\ pc[r] = "failed"
    /\ trace[r] # <<>>
    /\ Last(trace[r]).op = "lookup"

\* C2: a run whose identity lookup fails ends with a PrincipalResolutionError
\* naming the id looked up, and has made no publish call.
C2_LookupFailureIsPrincipalResolutionError ==
    \A r \in Runs :
        LookupFailed(r) =>
            /\ error[r] = [type |-> "PrincipalResolutionError",
                           arg |-> Last(trace[r]).arg]
            /\ put[r] = <<>>

\* The part of C2 the code keeps: no publish call after a failed lookup.
C2_NoPublishAfterLookupFailure ==
    \A r \in Runs : LookupFailed(r) => put[r] = <<>> /\ printed[r] = <<>>

\* The members of every policy of every request run r has put.
PublishedMembers(r) ==
    UNION { UNION { RangeOf(call.request.value[i].members.entra_members)
                    : i \in DOMAIN call.request.value }
            : call \in RangeOf(put[r]) }

\* A qualifying permission of run r's export references a USER principal that
\* the run's principal map does not resolve: no key, or a None id.
HasUnresolvedReference(r) ==
    \E pp \in RangeOf(Pairs(export[r])) :
        /\ pp.permission.name = "SELECT" /\ pp.permission.state = "GRANT"
        /\ \E o \in RangeOf(pp.permission.objects) :
              /\ o.type = "USER"
              /\ (o.id \notin DOMAIN local_map[r] \/ local_map[r][o.id] = NoneOid)

\* Run r has reached the build of its policies.
BuildReached(r) ==
    \/ pc[r] \in {"publish", "done"}
    \/ /\ pc[r] = "failed"
       /\ error[r].type # "GraphClientError"
       /\ error[r].arg \notin {"get_lakehouse_id", "get_workspace_name"}

\* C3: every published member carries a resolved identity id held by the
\* run's principal map, and a run that reaches the build with an unresolved
\* USER reference raises PrincipalResolutionError and publishes nothing.
C3_MembersResolvedOrPrincipalResolutionError ==
    \A r \in Runs :
        /\ \A m \in PublishedMembers(r) :
              /\ "object_id" \in DOMAIN m
              /\ \E id \in DOMAIN local_map[r] : m.object_id = local_map[r][id]
        /\ (BuildReached(r) /\ HasUnresolvedReference(r)) =>
              /\ error[r].type = "PrincipalResolutionError"
              /\ put[r] = <<>>

\* The (policy, permission) pairs of an export with action SELECT and state
\* GRANT, in export order.
SelectGrantPairs(policy_export) ==
    SelectSeq(Pairs(policy_export),
              LAMBDA pp : pp.permission.name = "SELECT" /\ pp.permission.state = "GRANT")

\* C4: every published request holds exactly one policy per SELECT/GRANT
\* permission of the export, in export order, each with the role name and
\* path of its own policy, one PERMIT rule and the ACTION scope {READ}.
C4_OnePolicyPerSelectGrant ==
    \A r \in Runs : \A k \in DOMAIN put[r] :
        LET value == put[r][k].request.value
            pairs == SelectGrantPairs(export[r])
        IN  /\ Len(value) = Len(pairs)
            /\ \A i \in DOMAIN value :
                  /\ value[i].name = RoleName(config.type, pairs[i].policy)
                  /\ Len(value[i].decision_rules) = 1
                  /\ value[i].decision_rules[1].effect = "Permit"
                  /\ Len(value[i].decision_rules[1].permission) = 2
                  /\ value[i].decision_rules[1].permission[1].attribute_name = "Path"
                  /\ value[i].decision_rules[1].permission[1].attribute_value_included_in
                       = << IF Truthy(pairs[i].policy.table)
                            THEN GetTableMapping(config.mapped_items,
                                                 pairs[i].policy.catalog,
                                                 pairs[i].policy.catalog_schema,
                                                 pairs[i].policy.table)
                            ELSE Wildcard >>
                  /\ value[i].decision_rules[1].permission[2]
                       = [attribute_name |-> "Action",
                          attribute_value_included_in |-> << READ >>]
                  /\ Len(value[i].members.entra_members)
                       = Len(SelectSeq(pairs[i].permission.objects,
                                       LAMBDA o : o.type = "USER"))

\* A completed run over two policies with different coordinates, each with
\* one SELECT/GRANT permission: two policies published, in export order.
C4_Witness ==
    /\ pc[1] = "done"
    /\ Len(export[1]) = 2
    /\ export[1][1].table # export[1][2].table
    /\ Len(export[1][1].permissions) = 1
    /\ Len(export[1][2].permissions) = 1
    /\ Len(put[1]) = 1
    /\ Len(put[1][1].request.value) = 2
    /\ put[1][1].request.value[1].name = RoleName(config.type, export[1][1])
    /\ put[1][1].request.value[2].name = RoleName(config.type, export[1][2])

\* The table-mapping entries equal to a policy on catalog, schema and table.
FullMatches(mapped_items, policy) ==
    {i \in DOMAIN mapped_items :
        /\ mapped_items[i].catalog = policy.catalog
        /\ mapped_items[i].catalog_schema = policy.catalog_schema
        /\ mapped_items[i].table = policy.table}

\* The PATH scope of the access policy a direct call built.
PathScope == unit.result[1].decision_rules[1].permission[1]

\* C5: the PATH scope of a built policy is {"*"} when the policy has no table
\* (None, or the empty string, which the code treats alike), "Tables/" and the
\* mapped name of the first entry matching catalog, schema and table when one
\* does, and "Tables/" and the table otherwise.
C5_PathScopeOfBuiltPolicy ==
    unit.called =>
        LET policy == unit.policy
            mapped_items == unit.cfg.mapped_items
            full == FullMatches(mapped_items, policy)
        IN  /\ PathScope.attribute_name = "Path"
            /\ PathScope.attribute_value_included_in
                 = IF ~Truthy(policy.table) THEN << Wildcard >>
                   ELSE IF full # {}
                        THEN << TablesPrefix
                                \o mapped_items[FirstOf(full)].lakehouse_table_name >>
                        ELSE << TablesPrefix \o policy.table >>

\* A call whose configuration holds an entry for the same schema and table in
\* another catalog, followed by two entries for the policy itself with
\* different names: the path is that of the first of the two.
C5_Witness ==
    /\ unit.called
    /\ Len(unit.cfg.mapped_items) = 2
    /\ unit.cfg.mapped_items[1].table = unit.policy.table
    /\ unit.cfg.mapped_items[1].catalog_schema = unit.policy.catalog_schema
    /\ unit.cfg.mapped_items[1].catalog # unit.policy.catalog
    /\ FullMatches(unit.cfg.mapped_items, unit.policy) = {2}
    /\ unit.cfg.mapped_items[1].lakehouse_table_name
         # unit.cfg.mapped_items[2].lakehouse_table_name
    /\ PathScope.attribute_value_included_in
         = << TablesPrefix \o unit.cfg.mapped_items[2].lakehouse_table_name >>

\* The (type tag, catalog, schema, table) tuples of the role-name inputs.
RoleTuples ==
    [type : RoleTags, catalog : Strings(MaxCoordLen),
     catalog_schema : Strings(MaxCoordLen) \cup {None},
     table : Strings(MaxCoordLen) \cup {None}]

\* Every tuple with its description and its role name.
RoleTable ==
    { [tuple |-> u, description |-> RoleDescription(u.type, u),
       name |-> RoleName(u.type, u)] : u \in RoleTuples }

\* The tuple a direct call was made with.
UnitTuple ==
    [type |-> unit.cfg.type, catalog |-> unit.policy.catalog,
     catalog_schema |-> unit.policy.catalog_schema, table |-> unit.policy.table]

\* C6 as stated: two tuples that differ in a coordinate have different role
\* names.
C6_RoleNameUniquePerTuple ==
    unit.called =>
        LET name == unit.result[1].name
            tuple == UnitTuple
        IN  \A e \in RoleTable : e.tuple # tuple => e.name # name

\* C6 as amended: two tuples have the same role name exactly when their
\* descriptions (type, catalog, schema and table joined by "_" and lowercased,
\* an absent schema or table as the empty string) are the same.
C6_RoleNameUniquePerDescription ==
    unit.called =>
        LET name == unit.result[1].name
            description == RoleDescription(unit.cfg.type, unit.policy)
        IN  \A e \in RoleTable : (e.name = name) <=> (e.description = description)

\* A call whose role name is shared by another tuple and not by a third.
C6_Witness ==
    /\ unit.called
    /\ \E u, v \in RoleTable :
          /\ u.tuple # UnitTuple
          /\ u.name = unit.result[1].name
          /\ v.name # unit.result[1].name

\* C7: the role name of a built policy starts with "pw", holds no "=", and is
\* the one every other call with the same type tag, catalog, schema and table
\* builds, whatever its permission, principal map and table mappings.
C7_RoleNameDependsOnlyOnTuple ==
    unit.called =>
        LET name == unit.result[1].name
        IN  /\ Len(name) >= 2
            /\ SubSeq(name, 1, 2) = <<"p", "w">>
            /\ \A i \in DOMAIN name : name[i] # "="
            /\ \A mapped_items \in MappedItemLists(1), permission \in UnitPermissions,
                  map \in UnitMaps :
                  BuildDataAccessPolicy(UnitConfig(unit.cfg.type, mapped_items), map,
                                        unit.policy, permission, READ).name = name

\* A call whose description encodes with padding.
C7_Witness ==
    /\ unit.called
    /\ "=" \in RangeOf(B64Encode(EncodeUtf8(RoleDescription(unit.cfg.type, unit.policy))))
    /\ unit.policy.catalog = <<"A">>

Rank(op) ==
    CASE op = "lookup" -> 1
      [] op = "get_lakehouse_id" -> 2
      [] op = "get_workspace_name" -> 3
      [] op = "build" -> 4
      [] op = "put_data_access_policy" -> 5
      [] op = "print" -> 6

Ops(r) == {trace[r][k].op : k \in DOMAIN trace[r]}

\* C8: the calls and steps of a run come in the order identity lookups,
\* lakehouse id, workspace name, builds, publish, report; nothing else happens
\* while a lookup is pending, and the publish call is made at most once.
C8_PhasesInOrder ==
    \A r \in Runs :
        /\ \A i, j \in DOMAIN trace[r] :
              i < j => Rank(trace[r][i].op) <= Rank(trace[r][j].op)
        /\ pc[r] = "await" => Last(trace[r]).op = "lookup"
        /\ Cardinality({k \in DOMAIN trace[r] : trace[r][k].op = "put_data_access_policy"})
             <= 1
        /\ Len(put[r]) <= 1

\* A completed run that went through every phase.
C8_Witness ==
    /\ pc[1] = "done"
    /\ Ops(1) = {"lookup", "get_lakehouse_id", "get_workspace_name", "build",
                 "put_data_access_policy", "print"}

\* The request run r publishes when it builds from the principal map it
\* resolved itself.
OwnRequest(r) ==
    DapRequest(ApplyFrom(config, [bound |-> TRUE, map |-> local_map[r]],
                         Pairs(export[r]), <<>>, FALSE).access_policies)

\* C9: a run, overlapped by another run on the same Weaver or not, builds its
\* members from the principal map resolved from its own export: it never
\* fails on a key of self.user_map and publishes what its own map gives.
C9_RunBuildsFromOwnPrincipalMap ==
    \A r \in Runs :
        /\ error[r].type \notin {"KeyError", "AttributeError"}
        /\ \A k \in DOMAIN put[r] : put[r][k].request = OwnRequest(r)

\* Two runs that overlapped, over one user each, both completed: each has
\* published the id its own lookup returned.
C9_Witness ==
    /\ overlapped
    /\ pc[1] = "done" /\ pc[2] = "done"
    /\ \A r \in Runs :
          /\ Len(export[r]) = 1
          /\ Len(export[r][1].permissions) = 1
          /\ Qualifies(export[r][1].permissions[1])
          /\ Len(put[r]) = 1
          /\ Len(put[r][1].request.value) = 1
          /\ Len(put[r][1].request.value[1].members.entra_members) = 1
          /\ "object_id" \in DOMAIN put[r][1].request.value[1].members.entra_members[1]
    /\ export[1][1].permissions[1].objects = << [id |-> "a", type |-> "USER"] >>
    /\ export[2][1].permissions[1].objects = << [id |-> "b", type |-> "USER"] >>
    /\ put[1][1].request.value[1].members.entra_members[1].object_id = Oid("a", 1)
    /\ put[2][1].request.value[1].members.entra_members[1].object_id = Oid("b", 2)

\* Run r is past lines 49-52.
PastLakehouse(r) ==
    \/ pc[r] \in {"workspace", "build", "publish", "done"}
    \/ pc[r] = "failed" /\ error[r].type # "GraphClientError"

\* Run r is past lines 54-55.
PastWorkspace(r) ==
    \/ pc[r] \in {"build", "publish", "done"}
    \/ pc[r] = "failed" /\ error[r].type # "GraphClientError"
                        /\ error[r].arg # "get_lakehouse_id"

FetchCount(r, op) == Cardinality({k \in DOMAIN trace[r] : trace[r][k].op = op})

\* C10: a run on a fresh Weaver fetches the lakehouse id exactly when none is
\* supplied, and the workspace name exactly when none is supplied, each at
\* most once; a supplied value stays as supplied; a failed fetch ends the run
\* with that error, right there and with no publish call; the publish call
\* targets the supplied id, or else the fetched one.
C10_IdentifiersFetchedIffNotSupplied ==
    /\ Truthy(supplied.lakehouse_id) => config.lakehouse_id = supplied.lakehouse_id
    /\ Truthy(supplied.workspace_name) => config.workspace_name = supplied.workspace_name
    /\ \A r \in Runs :
        /\ FetchCount(r, "get_lakehouse_id") <= 1
        /\ FetchCount(r, "get_workspace_name") <= 1
        /\ FetchCount(r, "get_lakehouse_id") = 1 => ~Truthy(supplied.lakehouse_id)
        /\ FetchCount(r, "get_workspace_name") = 1 => ~Truthy(supplied.workspace_name)
        /\ (PastLakehouse(r) /\ ~Truthy(supplied.lakehouse_id))
              => FetchCount(r, "get_lakehouse_id") = 1
        /\ (PastWorkspace(r) /\ ~Truthy(supplied.workspace_name))
              => FetchCount(r, "get_workspace_name") = 1
        /\ error[r].arg \in {"get_lakehouse_id", "get_workspace_name"} =>
              /\ pc[r] = "failed"
              /\ error[r].type = "FabricApiError"
              /\ Last(trace[r]).op = error[r].arg
              /\ put[r] = <<>>
        /\ \A k \in DOMAIN put[r] :
              put[r][k].lakehouse_id = IF Truthy(supplied.lakehouse_id)
                                       THEN supplied.lakehouse_id
                                       ELSE FetchedLakehouseId

\* A completed run on a Weaver supplied with a workspace name and no lakehouse
\* id: the id was fetched, the name was not, the publish went to the fetched id.
C10_Witness ==
    /\ pc[1] = "done"
    /\ supplied.lakehouse_id = None
    /\ supplied.workspace_name = SuppliedWorkspaceName
    /\ FetchCount(1, "get_lakehouse_id") = 1
    /\ FetchCount(1, "get_workspace_name") = 0
    /\ config.workspace_name = SuppliedWorkspaceName
    /\ put[1][1].lakehouse_id = FetchedLakehouseId

\* The positions of the USER-typed objects of a permission.
UserPositions(permission) ==
    {i \in DOMAIN permission.objects : permission.objects[i].type = "USER"}

\* The position of the k-th USER-typed object of a permission.
UserPosition(permission, k) ==
    CHOOSE i \in UserPositions(permission) :
        Cardinality({j \in UserPositions(permission) : j <= i}) = k

\* C11: the members of a built access policy are the permission's USER-typed
\* principals, in order and one per occurrence, each with the principal map's
\* value for its id, the configured tenant id and member type USER; a
\* non-USER principal contributes no member.
C11_MembersAreUserPrincipals ==
    (unit.called /\ unit.result # <<>>) =>
        LET members == unit.result[1].members.entra_members
            permission == unit.permission
        IN  /\ Len(members) = Cardinality(UserPositions(permission))
            /\ \A k \in DOMAIN members :
                  members[k]
                    = [object_id |-> unit.map[permission.objects[UserPosition(permission, k)].id],
                       tenant_id |-> unit.cfg.tenant_id,
                       object_type |-> "User"]

\* A policy built for a permission on a, a group, b and a again: three
\* members, for a, b and a.
C11_Witness ==
    /\ unit.called
    /\ unit.result # <<>>
    /\ unit.cfg.tenant_id = "tenant-2"
    /\ unit.permission.objects
         = << [id |-> "a", type |-> "USER"], [id |-> "b", type |-> "GROUP"],
              [id |-> "b", type |-> "USER"], [id |-> "a", type |-> "USER"] >>
    /\ Len(unit.result[1].members.entra_members) = 3
    /\ unit.result[1].members.entra_members[1].object_id = Oid("a", 1)
    /\ unit.result[1].members.entra_members[2].object_id = Oid("b", 1)
    /\ unit.result[1].members.entra_members[3].object_id = Oid("a", 1)

\* The positions in run r's trace of the events of operation op.
EventPositions(r, op) == {k \in DOMAIN trace[r] : trace[r][k].op = op}

\* C12: a run that reports a count N has made exactly one publish call, which
\* returned before the report and whose "value" holds the N policies the run
\* built; a run whose publish call fails ends with that error and reports no
\* count; every publish call carries every policy the run built.
C12_PublishesAllBuiltThenReports ==
    \A r \in Runs :
        /\ printed[r] # <<>> =>
              /\ Len(printed[r]) = 1
              /\ Len(put[r]) = 1
              /\ put[r][1].returned
              /\ printed[r][1] = Len(put[r][1].request.value)
              /\ printed[r][1] = Cardinality(EventPositions(r, "build"))
              /\ \A i \in EventPositions(r, "put_data_access_policy"),
                    j \in EventPositions(r, "print") : i < j
              /\ pc[r] = "done"
        /\ \A k \in DOMAIN put[r] :
              /\ DOMAIN put[r][k].request = {"value"}
              /\ put[r][k].request.value
                   = [i \in 1..Len(built[r]) |-> ModelDump(built[r][i])]
              /\ Len(put[r][k].request.value) = Cardinality(EventPositions(r, "build"))
              /\ ~put[r][k].returned =>
                    /\ pc[r] = "failed"
                    /\ error[r] = [type |-> "FabricApiError",
                                   arg |-> "put_data_access_policy"]
                    /\ printed[r] = <<>>
                    /\ EventPositions(r, "print") = {}
        /\ Cardinality(EventPositions(r, "print")) = Len(printed[r])

\* A completed run that built two policies, published both and reported 2.
C12_Witness ==
    /\ pc[1] = "done"
    /\ Len(built[1]) = 2
    /\ Len(put[1]) = 1
    /\ Len(put[1][1].request.value) = 2
    /\ printed[1] = <<2>>

\* A run that built a policy and whose publish call failed: no count reported.
C12_WitnessPublishFails ==
    /\ pc[1] = "failed"
    /\ Len(built[1]) >= 1
    /\ Len(put[1]) = 1
    /\ ~put[1][1].returned
    /\ printed[1] = <<>>

\* C13: no published request holds two access policies with the same role
\* name.
C13_NoDuplicateRoleNames ==
    \A r \in Runs : \A k \in DOMAIN put[r] :
        LET value == put[r][k].request.value
        IN  \A i, j \in DOMAIN value : i # j => value[i].name # value[j].name

\* What the code does keep: two policies of a published request have the
\* same role name exactly when the permissions they were built for belong to
\* policies with the same role description.
C13_SameNameIffSameDescription ==
    \A r \in Runs : \A k \in DOMAIN put[r] :
        LET value == put[r][k].request.value
            pairs == SelectGrantPairs(export[r])
        IN  /\ Len(value) = Len(pairs)
            /\ \A i, j \in DOMAIN value :
                  (value[i].name = value[j].name)
                     <=> (RoleDescription(config.type, pairs[i].policy)
                            = RoleDescription(config.type, pairs[j].policy))

\* The external ids run r has looked up so far.
LookedUp(r) == {trace[r][k].arg : k \in EventPositions(r, "lookup")}

\* C14: the second of two sequential runs on one Weaver starts from an empty
\* principal map: its map holds only ids it has looked up itself, every
\* distinct USER id of its export is looked up once more, whether the first
\* run resolved it or not, and its published members carry only ids returned
\* by its own lookups.
C14_SecondRunResolvesAgain ==
    /\ ~overlapped
    /\ pc[2] # "idle" => pc[1] \in {"done", "failed"}
    /\ DOMAIN local_map[2] \subseteq LookedUp(2)
    /\ \A id \in DOMAIN local_map[2] : local_map[2][id] \in {Oid(id, 2), NoneOid}
    /\ Resolved(2) => \A id \in UserIds(export[2]) : CallCount(2, "lookup", id) = 1
    /\ \A m \in PublishedMembers(2) :
          "object_id" \in DOMAIN m =>
              \E id \in LookedUp(2) : m.object_id = Oid(id, 2)

\* Both runs completed, both over user "a" (the second also over "b"): the
\* first run resolved "a", the second looked it up again and published the id
\* its own lookup returned.
C14_Witness ==
    /\ pc[1] = "done" /\ pc[2] = "done"
    /\ export[1][1].permissions[1].objects = << [id |-> "a", type |-> "USER"] >>
    /\ export[2][1].permissions[1].objects
         = << [id |-> "b", type |-> "USER"], [id |-> "a", type |-> "USER"] >>
    /\ local_map[1] = ("a" :> Oid("a", 1))
    /\ CallCount(2, "lookup", "a") = 1
    /\ CallCount(2, "lookup", "b") = 1
    /\ Len(put[2]) = 1
    /\ Len(put[2][1].request.value) = 1
    /\ Len(put[2][1].request.value[1].members.entra_members) = 2
    /\ put[2][1].request.value[1].members.entra_members[2]
         = [object_id |-> Oid("a", 2), tenant_id |-> "tenant", object_type |-> "User"]

\* C15: a run whose export has no permission with action SELECT and state
\* GRANT (no policy at all included) builds nothing and cannot fail in a
\* build; unless a collaborator call fails it goes on to the publish call,
\* made once with an empty "value", and reports 0.
C15_EmptyExportPublishesEmptyBatch ==
    \A r \in Runs :
        SelectGrantPairs(export[r]) = <<>> =>
            /\ EventPositions(r, "build") = {}
            /\ error[r].type \in {"", "GraphClientError", "FabricApiError"}
            /\ Len(put[r]) <= 1
            /\ \A k \in DOMAIN put[r] : put[r][k].request = [value |-> <<>>]
            /\ pc[r] = "done" =>
                  /\ Len(put[r]) = 1
                  /\ put[r][1].returned
                  /\ printed[r] = <<0>>
            /\ (pc[r] = "failed" /\ error[r].arg = "put_data_access_policy") =>
                  /\ Len(put[r]) = 1
                  /\ printed[r] = <<>>

\* A completed run over one policy whose only permission is a denied SELECT
\* on user "a": the user was looked up, the empty batch published, 0 reported.
C15_Witness ==
    /\ pc[1] = "done"
    /\ Len(export[1]) = 1
    /\ Len(export[1][1].permissions) = 1
    /\ export[1][1].permissions[1]
         = [name |-> "SELECT", state |-> "DENY",
            objects |-> << [id |-> "a", type |-> "USER"] >>]
    /\ CallCount(1, "lookup", "a") = 1
    /\ put[1] # <<>>
    /\ put[1][1].request = [value |-> <<>>]
    /\ printed[1] = <<0>>

\* A completed run over an export with no policy.
C15_WitnessNoPolicy ==
    /\ pc[1] = "done"
    /\ export[1] = <<>>
    /\ put[1] # <<>>
    /\ put[1][1].request = [value |-> <<>>]
    /\ printed[1] = <<0>>

=============================================================================
